---- MODULE Spec2Model ----
(***************************************************************************)
(* State-machine model of src/utils/PlayerAnimation.cpp: the               *)
(* PlayerAnimation facade and its OzzAnimation backend.                    *)
(*                                                                         *)
(* Asset files are modelled by what the loaders read from them (opened,    *)
(* archive tag, joint/track count, duration, mesh list).  Matrix and       *)
(* sampled-pose contents are not modelled; array sizes and the vertex      *)
(* array contents are.  Floats are fixed-point numbers plus the IEEE       *)
(* specials that a division by a zero duration produces.                   *)
(***************************************************************************)
EXTENDS Integers, Sequences, FiniteSets, TLC

VARIABLES
    _animations,        \* OzzAnimation::_animations : key -> AnimationSampler
    _currentKey,        \* OzzAnimation::_currentKey
    _skeleton,          \* OzzAnimation::_skeleton, by its num_joints()
    _models,            \* OzzAnimation::_models, by its size
    _skinning_matrices, \* OzzAnimation::_skinning_matrices, by its size
    _meshes,            \* OzzAnimation::_meshes
    _playbackSpeed,     \* PlayerAnimation::_playbackSpeed
    _timeRatio,         \* PlayerAnimation::_timeRatio      (ratio units)
    _startTime,         \* PlayerAnimation::_startTime      (time units)
    _resetTimeRatio,    \* PlayerAnimation::_resetTimeRatio
    simTime,            \* simulation time of the latest osg::FrameStamp
    meshDataRoot,       \* the osg::Geode handed to applyMeshes: its drawables
    fault,              \* the process died in an out-of-bounds access
    last,               \* history: the latest call, its inputs and result
    sought,             \* history: the seek whose playback is being followed
    pausing,            \* history: the run of paused updates in progress
    okLoads,            \* history: number of loadAnimation calls that returned true
    loopingOnly         \* history: every update so far had looping=true, duration > 0

playVars == <<_animations, _currentKey, _playbackSpeed, _timeRatio, _startTime,
              _resetTimeRatio, simTime, sought, pausing, okLoads, loopingOnly>>
meshVars == <<_meshes, meshDataRoot, fault>>
vars == <<_animations, _currentKey, _skeleton, _models, _skinning_matrices,
          _meshes, _playbackSpeed, _timeRatio, _startTime, _resetTimeRatio,
          simTime, meshDataRoot, fault, last, sought, pausing,
          okLoads, loopingOnly>>

(***************************************************************************)
(* Bounds and input sets                                                   *)
(***************************************************************************)
MaxTime == 2
MaxMeshes == 2
MaxLoadsCounted == 1

Keys == {"a", "b"}
Durations == {1, 2}
Speeds == {1, 2}

RECURSIVE Product(_)
Product(S) == IF S = {} THEN 1
              ELSE LET x == CHOOSE y \in S : TRUE IN x * Product(S \ {x})

\* _timeRatio is kept in units of 1/RatioDen and _startTime in units of
\* 1/TimeDen of a simulation-time tick.  Seek ratios are multiples of 1/2,
\* so every product and quotient that update computes from the durations
\* in Durations and the speeds in Speeds is a whole number of units.
SpeedDen == Product(Speeds)
RatioDen == 2 * Product(Durations) * SpeedDen
TimeDen == 2 * SpeedDen

\* seek(-0.5), seek(0.5), seek(1.5)
SeekRatios == {0 - RatioDen \div 2, RatioDen \div 2, (3 * RatioDen) \div 2}

(***************************************************************************)
(* Floats: a finite number, an infinity or a NaN                           *)
(***************************************************************************)
Num(x) == [fp |-> "num", v |-> x]
Inf(sign) == [fp |-> "inf", v |-> sign]
NaN == [fp |-> "nan", v |-> 0]

Sign(x) == IF x > 0 THEN 1 ELSE IF x < 0 THEN -1 ELSE 0

FLess(a, b) ==
    IF a.fp = "nan" \/ b.fp = "nan" THEN FALSE
    ELSE IF a.fp = b.fp THEN a.v < b.v
    ELSE IF a.fp = "inf" THEN a.v < 0
    ELSE b.v > 0

\* the float -1.0f and 0.0f and 1.0f in ratio units
MinusOne == Num(0 - RatioDen)
Zero == Num(0)
One == Num(RatioDen)

(***************************************************************************)
(* Asset files                                                             *)
(***************************************************************************)
SkeletonFiles ==
    { [opened |-> FALSE, tag |-> "none", joints |-> 0],
      [opened |-> TRUE, tag |-> "animation", joints |-> 0],
      [opened |-> TRUE, tag |-> "skeleton", joints |-> 2] }

AnimationFiles ==
    { [opened |-> FALSE, tag |-> "none", tracks |-> 0, duration |-> 0],
      [opened |-> TRUE, tag |-> "skeleton", tracks |-> 0, duration |-> 0],
      [opened |-> TRUE, tag |-> "animation", tracks |-> 3, duration |-> 1] }
    \cup { [opened |-> TRUE, tag |-> "animation", tracks |-> 2, duration |-> d] :
             d \in Durations }

\* ozz::animation::Animation() and AnimationSampler()
DefaultAnimation == [duration |-> 0, num_tracks |-> 0]
DefaultSampler == [animation |-> DefaultAnimation, cache |-> 0, locals |-> 0]

\* std::map::operator[] : inserts a default value under a missing key
MapIndex(m, k) ==
    IF k \in DOMAIN m THEN m
    ELSE [x \in DOMAIN m \cup {k} |-> IF x = k THEN DefaultSampler ELSE m[x]]

MapErase(m, k) == [x \in DOMAIN m \ {k} |-> m[x]]

NumSoaJoints(n) == (n + 3) \div 4

OzzLoadSkeleton(f, skeleton) ==
    IF ~f.opened THEN [ok |-> FALSE, val |-> skeleton]
    ELSE IF f.tag # "skeleton" THEN [ok |-> FALSE, val |-> skeleton]
    ELSE [ok |-> TRUE, val |-> f.joints]

OzzLoadAnimation(f, anim) ==
    IF ~f.opened THEN [ok |-> FALSE, val |-> anim]
    ELSE IF f.tag # "animation" THEN [ok |-> FALSE, val |-> anim]
    ELSE [ok |-> TRUE, val |-> [duration |-> f.duration, num_tracks |-> f.tracks]]

(***************************************************************************)
(* Time-ratio arithmetic of PlayerAnimation::update                        *)
(***************************************************************************)
\* (float)fs.getSimulationTime()
FrameTime(t) == Num(t * TimeDen)

\* simTime - (_timeRatio * duration / _playbackSpeed)
ResetStartTime_noSpeed(t, ratio, d, s) ==
    IF ratio.fp = "num" THEN Num(t * TimeDen - (ratio.v * d * TimeDen) \div RatioDen)
    ELSE NaN

ResetStartTime(t, ratio, d, s) ==
    IF ratio.fp = "num"
    THEN Num(t * TimeDen - (ratio.v * d * TimeDen) \div (RatioDen * s))
    ELSE IF ratio.fp = "nan" \/ d = 0 THEN NaN
    ELSE Inf(0 - ratio.v)

\* (simTime - _startTime) * _playbackSpeed / duration
ElapsedRatio(t, start, d, s) ==
    IF start.fp = "nan" THEN NaN
    ELSE IF start.fp = "inf" THEN Inf(0 - start.v)
    ELSE LET a == (t * TimeDen - start.v) * s IN
         IF d = 0 THEN (IF a = 0 THEN NaN ELSE Inf(Sign(a)))
         ELSE Num((a * RatioDen) \div (d * TimeDen))

\* if (looping && _timeRatio > 1.0f) _timeRatio = -1.0f;
WrapRatio_never(ratio, looping) == ratio

WrapRatio(ratio, looping) ==
    IF looping /\ FLess(One, ratio) THEN MinusOne ELSE ratio

\* osg::clampBetween(timeRatio, 0.0f, 1.0f)
ClampBetween(v, lo, hi) == IF FLess(v, lo) THEN lo ELSE IF FLess(hi, v) THEN hi ELSE v

(***************************************************************************)
(* Initial state: PlayerAnimation::PlayerAnimation and an empty geode      *)
(***************************************************************************)
NoCall == [op |-> "none"]
NotSought == [phase |-> 0, r |-> 0, t1 |-> 0]
NotPausing == [state |-> "none", ratio |-> Zero, t |-> 0, fresh |-> FALSE]

Init ==
    /\ _animations = [k \in {} |-> DefaultSampler]
    /\ _currentKey = ""
    /\ _skeleton = 0
    /\ _models = 0
    /\ _skinning_matrices = 0
    /\ _meshes = <<>>
    /\ _playbackSpeed = 1
    /\ _timeRatio = MinusOne
    /\ _startTime = Zero
    /\ _resetTimeRatio = TRUE
    /\ simTime = 0
    /\ meshDataRoot = <<>>
    /\ fault = FALSE
    /\ last = NoCall
    /\ sought = NotSought
    /\ pausing = NotPausing
    /\ okLoads = 0
    /\ loopingOnly = TRUE

(***************************************************************************)
(* Meshes (ozz::sample::Mesh) and mesh files                               *)
(***************************************************************************)
Part(ps, ok) == [positions |-> ps, valid |-> ok]

MeshBody == [parts |-> <<Part(<<1>>, TRUE), Part(<<2>>, TRUE)>>,
             triangle_indices |-> 3, joint_remaps |-> <<0, 1>>]
MeshEmpty == [parts |-> <<>>, triangle_indices |-> 0, joint_remaps |-> <<>>]
MeshEdge == [parts |-> <<Part(<<3>>, TRUE)>>,
             triangle_indices |-> 3, joint_remaps |-> <<0, 2>>]
MeshAlien == [parts |-> <<Part(<<4>>, TRUE)>>,
              triangle_indices |-> 3, joint_remaps |-> <<1, 3>>]
MeshBroken == [parts |-> <<Part(<<5>>, FALSE)>>,
               triangle_indices |-> 3, joint_remaps |-> <<0>>]

MissingMeshFile == [opened |-> FALSE, meshes |-> <<>>]
EmptyMeshFile == [opened |-> TRUE, meshes |-> <<>>]
MeshFiles ==
    {MissingMeshFile, EmptyMeshFile}
    \cup { [opened |-> TRUE, meshes |-> <<m>>] :
             m \in {MeshBody, MeshEmpty, MeshEdge, MeshAlien, MeshBroken} }

\* OzzAnimation::loadMesh appends every mesh of the file
OzzLoadMesh(f, meshes) ==
    IF ~f.opened THEN [ok |-> FALSE, val |-> meshes]
    ELSE [ok |-> TRUE, val |-> meshes \o f.meshes]

RECURSIVE SumVertices(_, _)
SumVertices(parts, i) ==
    IF i > Len(parts) THEN 0
    ELSE Len(parts[i].positions) + SumVertices(parts, i + 1)

\* Mesh::vertex_count(), Mesh::triangle_index_count(), Mesh::highest_joint_index()
VertexCount(mesh) == SumVertices(mesh.parts, 1)
TriangleIndexCount(mesh) == mesh.triangle_indices
HighestJointIndex(mesh) ==
    IF Len(mesh.joint_remaps) = 0 THEN 0
    ELSE mesh.joint_remaps[Len(mesh.joint_remaps)]

Max(a, b) == IF a < b THEN b ELSE a

RECURSIVE MaxRemaps(_, _)
MaxRemaps(meshes, i) ==
    IF i > Len(meshes) THEN 0
    ELSE Max(Len(meshes[i].joint_remaps), MaxRemaps(meshes, i + 1))

\* num_joints < mesh.highest_joint_index() rejects the mesh
MeshMatchesSkeleton(num_joints, mesh) ==
    ~(num_joints < HighestJointIndex(mesh))

(***************************************************************************)
(* PlayerAnimation::initialize                                             *)
(***************************************************************************)
Initialize(skelFiles, meshFiles) ==
    /\ ~fault
    /\ \E sf \in skelFiles, mf \in meshFiles :
         LET sk == OzzLoadSkeleton(sf, _skeleton)
             ms == OzzLoadMesh(mf, _meshes)
         IN /\ Len(ms.val) <= MaxMeshes
            /\ IF ~sk.ok
               THEN /\ UNCHANGED <<_skeleton, _meshes, _models, _skinning_matrices>>
                    /\ last' = [op |-> "initialize", ret |-> FALSE]
               ELSE IF ~ms.ok
               THEN /\ _skeleton' = sk.val
                    /\ UNCHANGED <<_meshes, _models, _skinning_matrices>>
                    /\ last' = [op |-> "initialize", ret |-> FALSE]
               ELSE /\ _skeleton' = sk.val
                    /\ _meshes' = ms.val
                    /\ _models' = sk.val
                    /\ _skinning_matrices' = MaxRemaps(ms.val, 1)
                    /\ last' = [op |-> "initialize",
                                ret |-> \A i \in 1..Len(ms.val) :
                                          MeshMatchesSkeleton(sk.val, ms.val[i])]
    /\ UNCHANGED <<meshDataRoot, fault>>
    /\ UNCHANGED playVars

\* history: a followed seek ends when the current animation is replaced
SoughtAfterReplace(key) == IF key = _currentKey THEN NotSought ELSE sought

(***************************************************************************)
(* PlayerAnimation::loadAnimation / unloadAnimation                        *)
(***************************************************************************)
LoadAnimation(keys, files) ==
    /\ ~fault
    /\ \E key \in keys, f \in files :
         LET anims1 == MapIndex(_animations, key)
             ld == OzzLoadAnimation(f, anims1[key].animation)
             anims2 == [anims1 EXCEPT ![key].animation = ld.val]
             num_joints == _skeleton
             anims3 == [anims2 EXCEPT ![key].cache = num_joints,
                                      ![key].locals = NumSoaJoints(num_joints)]
             pre == [op |-> "loadAnimation", key |-> key,
                     preKeys |-> DOMAIN _animations, preCurrent |-> _currentKey,
                     first |-> (okLoads = 0)]
         IN IF ~ld.ok
            THEN /\ _animations' = anims1
                 /\ last' = pre @@ [ret |-> FALSE]
                 /\ UNCHANGED <<_currentKey, okLoads>>
                 /\ sought' = sought
            ELSE IF num_joints # ld.val.num_tracks
            THEN /\ _animations' = anims2
                 /\ last' = pre @@ [ret |-> FALSE]
                 /\ UNCHANGED <<_currentKey, okLoads>>
                 /\ sought' = SoughtAfterReplace(key)
            ELSE /\ _animations' = anims3
                 /\ _currentKey' = IF Cardinality(DOMAIN anims3) < 2
                                   THEN key ELSE _currentKey
                 /\ last' = pre @@ [ret |-> TRUE]
                 /\ okLoads' = IF okLoads < MaxLoadsCounted THEN okLoads + 1 ELSE okLoads
                 /\ sought' = IF Cardinality(DOMAIN anims3) < 2
                              THEN NotSought ELSE SoughtAfterReplace(key)
    /\ UNCHANGED <<_playbackSpeed, _timeRatio, _startTime, _resetTimeRatio,
                   simTime, pausing, loopingOnly>>
    /\ UNCHANGED <<_skeleton, _models, _skinning_matrices>>
    /\ UNCHANGED meshVars

UnloadAnimation(keys) ==
    /\ ~fault
    /\ \E key \in keys :
         /\ _animations' = IF key \in DOMAIN _animations
                           THEN MapErase(_animations, key) ELSE _animations
         /\ last' = [op |-> "unloadAnimation", key |-> key]
         /\ sought' = SoughtAfterReplace(key)
    /\ UNCHANGED <<_currentKey, _playbackSpeed, _timeRatio, _startTime,
                   _resetTimeRatio, simTime, pausing, okLoads, loopingOnly>>
    /\ UNCHANGED <<_skeleton, _models, _skinning_matrices>>
    /\ UNCHANGED meshVars

(***************************************************************************)
(* PlayerAnimation::update, getDuration, selectAnimation, seek             *)
(***************************************************************************)
\* lines 315-335: the new _timeRatio, _startTime, _resetTimeRatio
UpdateTime(t, paused, looping, d) ==
    LET same == [ratio |-> _timeRatio, start |-> _startTime,
                 reset |-> _resetTimeRatio]
    IN IF paused THEN same
       ELSE IF FLess(_timeRatio, Zero)
       THEN [same EXCEPT !.start = FrameTime(t), !.ratio = Zero]
       ELSE IF _resetTimeRatio
       THEN [same EXCEPT !.start = ResetStartTime(t, _timeRatio, d, _playbackSpeed),
                         !.reset = FALSE]
       ELSE [same EXCEPT !.ratio = WrapRatio(
                 ElapsedRatio(t, _startTime, d, _playbackSpeed), looping)]

Update(maxTime) ==
    /\ ~fault
    /\ \E t \in simTime..maxTime, paused \in BOOLEAN, looping \in BOOLEAN :
         LET anims1 == MapIndex(_animations, _currentKey)
             d == anims1[_currentKey].animation.duration
             new == UpdateTime(t, paused, looping, d)
         IN /\ _animations' = anims1
            /\ _timeRatio' = new.ratio
            /\ _startTime' = new.start
            /\ _resetTimeRatio' = new.reset
            /\ simTime' = t
            /\ last' = [op |-> "update", paused |-> paused, looping |-> looping,
                        preKeys |-> DOMAIN _animations,
                        preCurrent |-> _currentKey,
                        preNegative |-> FLess(_timeRatio, Zero),
                        preReset |-> _resetTimeRatio,
                        soughtPhase |-> sought.phase]
            /\ sought' = IF paused THEN sought
                         ELSE IF sought.phase = 1
                         THEN [sought EXCEPT !.phase = 2, !.t1 = t]
                         ELSE IF sought.phase = 2 /\ new.ratio = MinusOne
                         THEN [sought EXCEPT !.phase = 3]
                         ELSE IF sought.phase = 3 THEN NotSought
                         ELSE sought
            /\ pausing' = IF paused
                          THEN (IF pausing.state = "active"
                                THEN [pausing EXCEPT !.t = t]
                                ELSE [state |-> "active", ratio |-> _timeRatio,
                                      t |-> t, fresh |-> (t = simTime)])
                          ELSE IF pausing.state = "active"
                          THEN [pausing EXCEPT !.state = "ended"]
                          ELSE NotPausing
            /\ loopingOnly' = (loopingOnly /\ looping /\ d > 0)
    /\ UNCHANGED <<_currentKey, _playbackSpeed, okLoads>>
    /\ UNCHANGED <<_skeleton, _models, _skinning_matrices>>
    /\ UNCHANGED meshVars

GetDuration ==
    /\ ~fault
    /\ LET anims1 == MapIndex(_animations, _currentKey)
       IN /\ _animations' = anims1
          /\ last' = [op |-> "getDuration",
                      preKeys |-> DOMAIN _animations,
                      preCurrent |-> _currentKey,
                      ret |-> anims1[_currentKey].animation.duration]
    /\ UNCHANGED <<_currentKey, _playbackSpeed, _timeRatio, _startTime,
                   _resetTimeRatio, simTime, sought, pausing, okLoads,
                   loopingOnly>>
    /\ UNCHANGED <<_skeleton, _models, _skinning_matrices>>
    /\ UNCHANGED meshVars

SelectAnimation(keys) ==
    /\ ~fault
    /\ \E key \in keys :
         /\ _currentKey' = key
         /\ last' = [op |-> "selectAnimation", key |-> key]
    /\ _timeRatio' = MinusOne
    /\ sought' = NotSought
    /\ pausing' = NotPausing
    /\ UNCHANGED <<_animations, _playbackSpeed, _startTime, _resetTimeRatio,
                   simTime, okLoads, loopingOnly>>
    /\ UNCHANGED <<_skeleton, _models, _skinning_matrices>>
    /\ UNCHANGED meshVars

Seek ==
    /\ ~fault
    /\ \E r \in SeekRatios :
         /\ _timeRatio' = ClampBetween(Num(r), Zero, One)
         /\ sought' = [phase |-> 1, r |-> r, t1 |-> 0]
         /\ last' = [op |-> "seek", r |-> r]
    /\ _resetTimeRatio' = TRUE
    /\ pausing' = NotPausing
    /\ UNCHANGED <<_animations, _currentKey, _playbackSpeed, _startTime,
                   simTime, okLoads, loopingOnly>>
    /\ UNCHANGED <<_skeleton, _models, _skinning_matrices>>
    /\ UNCHANGED meshVars

\* the setter of _playbackSpeed (declared in PlayerAnimation.h)
SetPlaybackSpeed ==
    /\ ~fault
    /\ \E s \in Speeds :
         /\ s # _playbackSpeed
         /\ _playbackSpeed' = s
         /\ last' = [op |-> "setPlaybackSpeed", s |-> s]
    /\ sought' = NotSought
    /\ UNCHANGED <<_animations, _currentKey, _timeRatio, _startTime,
                   _resetTimeRatio, simTime, pausing, okLoads, loopingOnly>>
    /\ UNCHANGED <<_skeleton, _models, _skinning_matrices>>
    /\ UNCHANGED meshVars

(***************************************************************************)
(* Geometries (osg::Geometry) and OzzAnimation::applyMesh                  *)
(***************************************************************************)
\* a geometry: its vertex array by content, its normal, texture-coordinate
\* and colour arrays by size (-1: no array), its DrawElementsUShort by size
\* (-1: no primitive set)
NewGeometry(id) ==
    [id |-> id, hasVA |-> FALSE, va |-> <<>>, na |-> -1, ta |-> -1, ca |-> -1,
     de |-> -1]

ZeroVec == [kind |-> "zero", p |-> 0]
Rest(p) == [kind |-> "rest", p |-> p]
\* the output of ozz::geometry::SkinningJob for the input position p
Skinned(p, kind) == [kind |-> kind, p |-> p]

\* new osg::Vec3Array(n), and std::vector::resize(n)
Resize(arr, n) == [i \in 1..n |-> IF i <= Len(arr) THEN arr[i] ELSE ZeroVec]

\* memcpy(&((*va)[vIndex]), &data[0], ...)
CopyAt(arr, vIndex, data) ==
    [i \in 1..Len(arr) |->
        IF i > vIndex /\ i <= vIndex + Len(data) THEN data[i - vIndex] ELSE arr[i]]

\* 1 when the array exists with the right size (the dirtyVA-- branches)
Clean(size, vCount) == IF size = vCount THEN 1 ELSE 0

\* the part loop of applyMesh, lines 116-127
RECURSIVE CopyParts(_, _, _, _)
CopyParts(va, parts, i, vIndex) ==
    IF i > Len(parts) THEN va
    ELSE LET ps == parts[i].positions
         IN CopyParts(CopyAt(va, vIndex, [j \in 1..Len(ps) |-> Rest(ps[j])]),
                      parts, i + 1, vIndex + Len(ps))

\* the part loop of applySkinningMesh, lines 169-229
RECURSIVE SkinParts(_, _, _, _, _)
SkinParts(va, parts, i, vIndex, kind) ==
    IF i > Len(parts) THEN va
    ELSE LET ps == parts[i].positions
             out == [j \in 1..Len(ps) |-> Skinned(ps[j], kind)]
         IN SkinParts(IF parts[i].valid THEN CopyAt(va, vIndex, out) ELSE va,
                      parts, i + 1, vIndex + Len(ps), kind)

\* the arrays and primitive set after lines 89-107 (143-161)
WithArrays(geom, vCount) ==
    [geom EXCEPT !.hasVA = TRUE,
                 !.va = IF geom.hasVA /\ Len(geom.va) = vCount THEN geom.va
                        ELSE Resize(geom.va, vCount),
                 !.na = vCount, !.ta = vCount, !.ca = vCount,
                 !.de = IF geom.de = -1 THEN 0 ELSE geom.de]

ApplyMesh(geom, mesh) ==
    LET vCount == VertexCount(mesh)
        tCount == TriangleIndexCount(mesh)
        dirtyVA == 4 - (IF geom.hasVA THEN Clean(Len(geom.va), vCount) ELSE 0)
                     - Clean(geom.na, vCount) - Clean(geom.ta, vCount)
                     - Clean(geom.ca, vCount)
        g1 == WithArrays(geom, vCount)
        g2 == [g1 EXCEPT !.de = tCount]
    IN IF vCount <= 0 THEN [ret |-> FALSE, geom |-> geom]
       ELSE IF g1.de # tCount /\ tCount <= 0 THEN [ret |-> FALSE, geom |-> g1]
       ELSE IF dirtyVA = 0 THEN [ret |-> TRUE, geom |-> g2]
       ELSE [ret |-> TRUE,
             geom |-> [g2 EXCEPT !.va = CopyParts(g1.va, mesh.parts, 1, 0)]]

\* kind: "skinned" with matrices read in bounds, "garbage" otherwise
ApplySkinningMesh(geom, mesh, kind) ==
    LET vCount == VertexCount(mesh)
        tCount == TriangleIndexCount(mesh)
        g1 == WithArrays(geom, vCount)
        g2 == [g1 EXCEPT !.de = tCount]
    IN IF vCount <= 0 THEN [ret |-> FALSE, geom |-> geom]
       ELSE IF g1.de # tCount /\ tCount <= 0 THEN [ret |-> FALSE, geom |-> g1]
       ELSE [ret |-> TRUE,
             geom |-> [g2 EXCEPT !.va = SkinParts(g1.va, mesh.parts, 1, 0, kind)]]

(***************************************************************************)
(* PlayerAnimation::applyMeshes                                            *)
(***************************************************************************)
Ids(root) == {root[i].id : i \in 1..Len(root)}

MaxOf(S) == IF S = {} THEN 0 ELSE CHOOSE x \in S : \A y \in S : y <= x

FreshGeometries(root, n) == [i \in 1..n |-> NewGeometry(MaxOf(Ids(root)) + i)]

\* lines 356-366: the drawables of the geode before the meshes are applied
Drawables_append(root, n) ==
    IF Len(root) # n THEN root \o FreshGeometries(root, n) ELSE root

Drawables(root, n) ==
    IF Len(root) # n THEN FreshGeometries(root, n) ELSE root

\* lines 375-379 read _models[joint_remaps[j]] and write _skinning_matrices[j]
OutOfBounds(mesh) ==
    \E j \in 1..Len(mesh.joint_remaps) :
        \/ mesh.joint_remaps[j] >= _models
        \/ j - 1 >= _skinning_matrices

\* the mesh loop, lines 368-382; ub is what an out-of-bounds access does
RECURSIVE ApplyLoop(_, _, _, _, _)
ApplyLoop(root, i, withSkinning, ub, results) ==
    IF i > Len(_meshes)
    THEN [ret |-> TRUE, root |-> root, results |-> results, crashed |-> FALSE]
    ELSE LET mesh == _meshes[i] IN
         IF ~withSkinning
         THEN LET r == ApplyMesh(root[i], mesh)
              IN ApplyLoop([root EXCEPT ![i] = r.geom], i + 1, withSkinning, ub,
                           Append(results, r.ret))
         ELSE IF OutOfBounds(mesh) /\ ub = "crash"
         THEN [ret |-> FALSE, root |-> root, results |-> results,
               crashed |-> TRUE]
         ELSE LET r == ApplySkinningMesh(root[i], mesh,
                          IF OutOfBounds(mesh) THEN "garbage" ELSE "skinned")
                  root1 == [root EXCEPT ![i] = r.geom]
              IN IF ~r.ret
                 THEN [ret |-> FALSE, root |-> root1,
                       results |-> Append(results, FALSE), crashed |-> FALSE]
                 ELSE ApplyLoop(root1, i + 1, withSkinning, ub,
                                Append(results, TRUE))

ApplyMeshes ==
    /\ ~fault
    /\ \E withSkinning \in BOOLEAN, ub \in {"crash", "garbage"} :
         LET res == ApplyLoop(Drawables(meshDataRoot, Len(_meshes)), 1,
                              withSkinning, ub, <<>>)
         IN /\ meshDataRoot' = res.root
            /\ fault' = res.crashed
            /\ last' = IF res.crashed THEN [op |-> "crash"]
                       ELSE [op |-> "applyMeshes", withSkinning |-> withSkinning,
                             ret |-> res.ret, results |-> res.results,
                             preIds |-> [i \in 1..Len(meshDataRoot) |->
                                           meshDataRoot[i].id]]
    /\ UNCHANGED <<_meshes, _skeleton, _models, _skinning_matrices>>
    /\ UNCHANGED playVars

(***************************************************************************)
(* Specifications.  Spec follows the time ratio of one animation key;      *)
(* SpecTable follows the animation table under two keys and every kind of  *)
(* animation file, with the simulation time staying at 0.                  *)
(***************************************************************************)
GoodSkeletonFiles == {f \in SkeletonFiles : f.tag = "skeleton"}
GoodAnimationFiles == {f \in AnimationFiles : f.tag = "animation" /\ f.tracks = 2}

Next ==
    \/ Initialize(GoodSkeletonFiles, {EmptyMeshFile})
    \/ LoadAnimation({"a"}, GoodAnimationFiles)
    \/ Update(MaxTime)
    \/ SelectAnimation({"a"})
    \/ Seek
    \/ SetPlaybackSpeed

Spec == Init /\ [][Next]_vars

NextTable ==
    \/ Initialize(SkeletonFiles, {MissingMeshFile, EmptyMeshFile})
    \/ LoadAnimation(Keys, AnimationFiles)
    \/ UnloadAnimation(Keys)
    \/ Update(0)
    \/ GetDuration
    \/ SelectAnimation(Keys)

SpecTable == Init /\ [][NextTable]_vars

\* SpecMesh follows the meshes and the geode.
NextMesh ==
    \/ Initialize(SkeletonFiles, MeshFiles)
    \/ ApplyMeshes

SpecMesh == Init /\ [][NextMesh]_vars

(***************************************************************************)
(* Properties of the animation table                                       *)
(***************************************************************************)
\* C2: a loadAnimation call that returns false leaves the keys of
\* _animations and _currentKey as they were before the call.
C2_RejectedLoadNotRegistered ==
    (last.op = "loadAnimation" /\ ~last.ret) =>
        /\ DOMAIN _animations = last.preKeys
        /\ _currentKey = last.preCurrent

\* C5: the first loadAnimation call that returns true makes its key the
\* current key; a later successful call under another key leaves the
\* current key unchanged.
C5_FirstLoadedIsCurrent ==
    (last.op = "loadAnimation" /\ last.ret) =>
        IF last.first THEN _currentKey = last.key
        ELSE (last.key # last.preCurrent => _currentKey = last.preCurrent)

\* C8: update and getDuration leave the keys of _animations and
\* _currentKey unchanged.
C8_UpdateOnlyReads ==
    (last.op \in {"update", "getDuration"}) =>
        /\ DOMAIN _animations = last.preKeys
        /\ _currentKey = last.preCurrent

(***************************************************************************)
(* Properties of the time ratio                                            *)
(***************************************************************************)
CurrentDuration ==
    IF _currentKey \in DOMAIN _animations
    THEN _animations[_currentKey].animation.duration ELSE 0

Clamped(r) == IF r < 0 THEN 0 ELSE IF r > RatioDen THEN RatioDen ELSE r

\* the ratio that `ticks` of simulation time add, in ratio units
Advance(ticks) == (ticks * _playbackSpeed * RatioDen) \div CurrentDuration

Expected(x, looping) == IF looping /\ x > RatioDen THEN MinusOne ELSE Num(x)

\* C3: with a current animation of positive duration, the first unpaused
\* update after seek(r) leaves _timeRatio = clamp(r) and clears
\* _resetTimeRatio; a later unpaused update at time t2 stores
\* clamp(r) + (t2 - t1) * speed / duration, or -1 when looping wraps it.
C3_SeekResumes ==
    (last.op = "update" /\ ~last.paused /\ CurrentDuration > 0) =>
        /\ last.soughtPhase = 1 =>
              /\ _timeRatio = Num(Clamped(sought.r))
              /\ ~_resetTimeRatio
        /\ last.soughtPhase = 2 =>
              _timeRatio = Expected(Clamped(sought.r) + Advance(simTime - sought.t1),
                                    last.looping)

C3_Witness ==
    /\ last.op = "update" /\ ~last.paused /\ CurrentDuration > 1
    /\ last.soughtPhase = 2
    /\ _playbackSpeed > 1
    /\ simTime > sought.t1
    /\ sought.r > 0 /\ sought.r < RatioDen
    /\ ~last.looping
    /\ _timeRatio = Num(sought.r + Advance(simTime - sought.t1))

\* C4: the first unpaused update after a run of paused updates stores the
\* ratio held when pausing began plus the advance of the last frame
\* interval only.  (Stated for a pause that began at the simulation time of
\* the update before it, so that the ratio held then is up to date.)
C4_PauseDoesNotAdvance ==
    (/\ last.op = "update" /\ ~last.paused /\ pausing.state = "ended"
     /\ pausing.fresh
     /\ ~last.preNegative /\ ~last.preReset
     /\ CurrentDuration > 0 /\ pausing.ratio.fp = "num") =>
        _timeRatio = Expected(pausing.ratio.v + Advance(simTime - pausing.t),
                              last.looping)

\* C9: while every update loops over an animation of positive duration,
\* _timeRatio is -1 or within [0,1]; an update that computes a ratio above
\* 1 stores -1; an unpaused update that finds -1 stores 0 and sets
\* _startTime to its simulation time.
C9_LoopingRatioRange ==
    loopingOnly =>
        /\ \/ _timeRatio = MinusOne
           \/ /\ _timeRatio.fp = "num"
              /\ 0 <= _timeRatio.v /\ _timeRatio.v <= RatioDen
        /\ (/\ last.op = "update" /\ ~last.paused
            /\ ~last.preNegative /\ ~last.preReset
            /\ (simTime * TimeDen - _startTime.v) * _playbackSpeed
                 > CurrentDuration * TimeDen) =>
               _timeRatio = MinusOne
        /\ (last.op = "update" /\ ~last.paused /\ last.preNegative) =>
               /\ _timeRatio = Zero
               /\ _startTime = FrameTime(simTime)

C9_Witness ==
    /\ loopingOnly
    /\ last.op = "update" /\ ~last.paused
    /\ ~last.preNegative /\ ~last.preReset
    /\ _timeRatio = MinusOne

(***************************************************************************)
(* Properties of the meshes and the geode                                  *)
(***************************************************************************)
\* C1: after initialize returns true, every joint index in every loaded
\* mesh's joint_remaps is below the skeleton's joint count, the size of
\* _models.
C1_JointIndicesInRange ==
    (last.op = "initialize" /\ last.ret) =>
        /\ _models = _skeleton
        /\ \A i \in 1..Len(_meshes) :
             \A j \in 1..Len(_meshes[i].joint_remaps) :
                _meshes[i].joint_remaps[j] < _skeleton

RestPositions(mesh) == CopyParts(Resize(<<>>, VertexCount(mesh)), mesh.parts, 1, 0)

\* C6: after applyMeshes without skinning, the vertex array of every mesh
\* that has vertices holds the positions stored in the mesh's parts.
\* (Stated for meshes whose joint indices are all within _models and whose
\* skinning jobs succeed.)
C6_UnskinnedRestPositions ==
    (/\ last.op = "applyMeshes" /\ ~last.withSkinning
     /\ \A i \in 1..Len(_meshes) :
          /\ ~OutOfBounds(_meshes[i])
          /\ \A k \in 1..Len(_meshes[i].parts) : _meshes[i].parts[k].valid) =>
        \A i \in 1..Len(_meshes) :
            VertexCount(_meshes[i]) > 0 =>
                /\ meshDataRoot[i].hasVA
                /\ meshDataRoot[i].va = RestPositions(_meshes[i])

\* C7: applyMeshes returns true only if the per-mesh operation returned
\* true for every loaded mesh.
C7_TrueOnlyIfAllApplied ==
    (last.op = "applyMeshes" /\ last.ret) =>
        /\ Len(last.results) = Len(_meshes)
        /\ \A i \in 1..Len(last.results) : last.results[i]

\* C10: after applyMeshes the geode has one drawable per loaded mesh; with
\* that many drawables on entry none is removed or replaced, otherwise
\* every previous drawable is gone and the drawables are new geometries.
C10_OneDrawablePerMesh ==
    (last.op = "applyMeshes") =>
        /\ Len(meshDataRoot) = Len(_meshes)
        /\ IF Len(last.preIds) = Len(_meshes)
           THEN \A i \in 1..Len(meshDataRoot) : meshDataRoot[i].id = last.preIds[i]
           ELSE /\ \A i \in 1..Len(meshDataRoot) :
                     \A k \in 1..Len(last.preIds) :
                        meshDataRoot[i].id # last.preIds[k]
                /\ Cardinality(Ids(meshDataRoot)) = Len(meshDataRoot)

C10_Witness ==
    /\ last.op = "applyMeshes"
    /\ Len(last.preIds) > 0
    /\ Len(last.preIds) < Len(_meshes)
    /\ Len(meshDataRoot) = Len(_meshes)

====
